---- MODULE Spec2Model ----
(***************************************************************************)
(* Model of log_to_slack: the SlackLogHandler (construction, emit), the    *)
(* two NoStacktraceFormatter classes, DefaultFormatter, SlackLogFilter and *)
(* the COLORS table.                                                       *)
(*                                                                         *)
(* Python values are encoded as follows.  An optional value is a sequence  *)
(* of length 0 (None) or 1 (the value).  A str that the code only passes   *)
(* around is a TLA+ string.  A str that the code builds (the rendered      *)
(* message, the trace text) is a sequence of chunks, so that concatenation *)
(* and join are computed and containment can be tested.  A dict is a       *)
(* record/function whose DOMAIN is its key set.                            *)
(***************************************************************************)
EXTENDS Integers, Sequences, FiniteSets, TLC

VARIABLES handler, ctor, record, emitted, filtered, traced, emits, sends

vars == <<handler, ctor, record, emitted, filtered, traced, emits, sends>>

None == <<>>
Some(x) == <<x>>

\* Python truth value of an Optional[str]: None and "" are falsy.
TruthyStr(o) == o # None /\ o[1] # ""

\* Python truth value of an optional built string: None and "" are falsy.
TruthyText(o) == o # None /\ o[1] # <<>>

\* Python truth value of record.exc_info: None is falsy, any 3-tuple is truthy.
TruthyExc(o) == o # None

----------------------------------------------------------------------------
\* logging levels imported by log_to_slack/__init__.py
CRITICAL == 50
ERROR == 40
WARNING == 30
INFO == 20
DEBUG == 10
NOTSET == 0
FATAL == CRITICAL

NOTSET_COLOR == "#808080"
DEBUG_COLOR == "#00FFFF"
INFO_COLOR == "#00C400"
WARNING_COLOR == "#FFE240"
ERROR_COLOR == "#FF0000"
CRITICAL_COLOR == "#700000"
FATAL_COLOR == CRITICAL_COLOR

\* A dict literal: on a repeated key the later entry wins.
DictLiteral(pairs) ==
    [k \in {pairs[i][1] : i \in DOMAIN pairs} |->
        LET last == CHOOSE i \in DOMAIN pairs :
                        /\ pairs[i][1] = k
                        /\ \A j \in DOMAIN pairs : pairs[j][1] = k => j <= i
        IN pairs[last][2]]

COLORS ==
    DictLiteral(<< <<NOTSET, NOTSET_COLOR>>,
                   <<DEBUG, DEBUG_COLOR>>,
                   <<INFO, INFO_COLOR>>,
                   <<WARNING, WARNING_COLOR>>,
                   <<ERROR, ERROR_COLOR>>,
                   <<FATAL, FATAL_COLOR>>,
                   <<CRITICAL, CRITICAL_COLOR>> >>)

DEFAULT_EMOJI == ":heavy_exclamation_mark:"

----------------------------------------------------------------------------
\* Built strings.

NEWLINE == "\n"

RECURSIVE Concat(_)
\* "".join(strs) for a sequence of built strings
Concat(strs) ==
    IF strs = <<>> THEN <<>> ELSE Head(strs) \o Concat(Tail(strs))

RECURSIVE Join(_, _)
\* sep.join(strs) for a sequence of built strings
Join(sep, strs) ==
    IF strs = <<>> THEN <<>>
    ELSE IF Len(strs) = 1 THEN Head(strs)
    ELSE Head(strs) \o <<sep>> \o Join(sep, Tail(strs))

\* s[-1:] != "\n" and then s = s + "\n", as logging.Formatter.format does
EndLine(s) ==
    IF s # <<>> /\ s[Len(s)] = NEWLINE THEN s ELSE s \o <<NEWLINE>>

\* s with one trailing newline removed, if it ends with one
StripLastNewline(s) ==
    IF s # <<>> /\ s[Len(s)] = NEWLINE THEN SubSeq(s, 1, Len(s) - 1) ELSE s

----------------------------------------------------------------------------
\* Exception information, as the host framework puts it on a record.
\*   None                      no exception
\*   Some("NoException")       exc_info=True outside an except block: the
\*                             tuple (None, None, None), which is truthy
\*   Some("TestException")     the Exception("Test exception") of test.py

NoException == "NoException"
TestException == "TestException"

\* traceback.format_exception(*exc_info): a list of strings, each of them
\* ending in a newline.
format_exception(ei) ==
    IF ei = NoException
    THEN << <<"NoneType: None", NEWLINE>> >>
    ELSE << <<"Traceback (most recent call last):", NEWLINE>>,
            <<"  File test.py, line 38, in <module>", NEWLINE>>,
            <<"Exception: Test exception", NEWLINE>> >>

\* The chunks that only exception-trace text is made of.
TraceChunks ==
    {"NoneType: None",
     "Traceback (most recent call last):",
     "  File test.py, line 38, in <module>",
     "Exception: Test exception"}

\* logging.Formatter.formatException, which DefaultFormatter inherits: the
\* printed exception without its last newline.
Formatter_formatException(ei) ==
    Some(StripLastNewline(Concat(format_exception(ei))))

\* NoStacktraceFormatter.formatException (both classes)
NoStacktrace_formatException(ei) == None

\* logging.Formatter.formatStack: the stack_info string as it is
formatStack(stack_info) == stack_info

STACK_INFO ==
    <<"Stack (most recent call last):", NEWLINE, "  File test.py, line 33, in <module>">>

----------------------------------------------------------------------------
\* The formatters.

DefaultFormatterCls == "formatters.DefaultFormatter"
CoreNoStacktraceCls == "log_to_slack.NoStacktraceFormatter"
PrefixedNoStacktraceCls == "formatters.NoStacktraceFormatter"

\* The two NoStacktraceFormatter classes a SlackLogHandler formats with: the one
\* __init__ installs (default format "%(message)s") and the one test.py
\* installs with setFormatter (format with levelprefix, asctime and name).
HandlerFormatters == {CoreNoStacktraceCls, PrefixedNoStacktraceCls}

ASCTIME == "2026-01-01 00:00:00,000"
LOGGER_NAME == "debug_application"

\* Whether the formatter's format string is test.py's
\* "%(levelprefix)s %(asctime)s (%(name)s) %(message)s".
UsesPrefixFormat(cls) == cls \in {DefaultFormatterCls, PrefixedNoStacktraceCls}

\* Formatter.usesTime(): the format string holds %(asctime)
usesTime(cls) == UsesPrefixFormat(cls)

formatException(cls, ei) ==
    IF cls = DefaultFormatterCls
    THEN Formatter_formatException(ei)
    ELSE NoStacktrace_formatException(ei)

\* Formatter.formatMessage: the format string filled from the record
formatMessage(cls, rec) ==
    IF UsesPrefixFormat(cls)
    THEN rec.levelprefix[1] \o <<" ", rec.asctime[1], " (", LOGGER_NAME, ") ", rec.message[1]>>
    ELSE <<rec.message[1]>>

\* logging.Formatter.format, reached through super().format(record).  Gives
\* the record as it leaves it, the returned string and the exception raised
\* ("None" when it returns).  record.getMessage() raises TypeError when the
\* message's arguments do not fit its template, before anything is assigned.
Formatter_format(cls, rec) ==
    IF rec.badArgs
    THEN [rec |-> rec, ret |-> None, raised |-> "TypeError"]
    ELSE LET r1 == [rec EXCEPT !.message = Some(rec.msg)]
             r2 == IF usesTime(cls) THEN [r1 EXCEPT !.asctime = Some(ASCTIME)] ELSE r1
             s1 == formatMessage(cls, r2)
             r3 == IF TruthyExc(r2.exc_info) /\ ~TruthyText(r2.exc_text)
                   THEN [r2 EXCEPT !.exc_text = formatException(cls, r2.exc_info[1])]
                   ELSE r2
             s2 == IF TruthyText(r3.exc_text)
                   THEN EndLine(s1) \o r3.exc_text[1]
                   ELSE s1
             s3 == IF r3.stack_info # None
                   THEN EndLine(s2) \o formatStack(r3.stack_info[1])
                   ELSE s2
         IN [rec |-> r3, ret |-> Some(s3), raised |-> "None"]

\* " " * (8 - len(levelname)): a negative count gives the empty string
Spaces(n) == [i \in 1..n |-> " "]

LevelNameLen(levelname) ==
    CASE levelname = "NOTSET" -> 6
      [] levelname = "DEBUG" -> 5
      [] levelname = "INFO" -> 4
      [] levelname = "WARNING" -> 7
      [] levelname = "ERROR" -> 5
      [] levelname = "CRITICAL" -> 8
      [] OTHER -> 8

\* formatters.DefaultFormatter.format
DefaultFormatter_format(cls, rec) ==
    LET level_name == rec.levelname
        seperator == Spaces(8 - LevelNameLen(rec.levelname))
        r1 == [rec EXCEPT !.levelprefix = Some(<<level_name, ":">> \o seperator)]
    IN Formatter_format(cls, r1)

\* RestoreExcText without the finally clause: the cleared cache is left behind
RestoreExcText_Skipped(rec, saved_exc_text) == rec

\* What NoStacktraceFormatter.format restores in its finally clause
RestoreExcText(rec, saved_exc_text) == [rec EXCEPT !.exc_text = saved_exc_text]

\* NoStacktraceFormatter.format without the clearing of record.exc_text
NoStacktraceFormatter_format_KeepCache(cls, rec) ==
    IF cls = PrefixedNoStacktraceCls
    THEN DefaultFormatter_format(cls, rec)
    ELSE Formatter_format(cls, rec)

\* NoStacktraceFormatter.format, of log_to_slack/__init__.py (cls is
\* CoreNoStacktraceCls) and of log_to_slack/formatters.py (cls is
\* PrefixedNoStacktraceCls, whose super() is DefaultFormatter).
NoStacktraceFormatter_format(cls, rec) ==
    LET saved_exc_text == rec.exc_text
        r1 == [rec EXCEPT !.exc_text = None]
        res == IF cls = PrefixedNoStacktraceCls
               THEN DefaultFormatter_format(cls, r1)
               ELSE Formatter_format(cls, r1)
    IN [res EXCEPT !.rec = RestoreExcText(res.rec, saved_exc_text)]

\* filter with True as the default of getattr
filter_DefaultTrue(rec) ==
    IF rec.notify_slack # None THEN rec.notify_slack[1] ELSE "True"

\* SlackLogFilter.filter: getattr(record, "notify_slack", False).  The
\* attribute is absent (None here) or holds a Python value, written as its repr.
filter(rec) ==
    IF rec.notify_slack # None THEN rec.notify_slack[1] ELSE "False"

\* The host's reading of a filter result: a record passes when it is truthy.
TruthyValue(v) == v \notin {"False", "None", "0", "''"}

----------------------------------------------------------------------------
\* Log records.

\* logging.getLevelName, which fills record.levelname
getLevelName(levelno) ==
    CASE levelno = CRITICAL -> "CRITICAL"
      [] levelno = ERROR -> "ERROR"
      [] levelno = WARNING -> "WARNING"
      [] levelno = INFO -> "INFO"
      [] levelno = DEBUG -> "DEBUG"
      [] levelno = NOTSET -> "NOTSET"
      [] OTHER -> "Level n"

\* The record the host framework creates for one logging call.  message,
\* asctime and levelprefix are attributes a formatter adds; exc_text is the
\* host's cache of the formatted exception.
LogRecord(levelno, msg, badArgs, exc_info, stack_info, notify_slack) ==
    [levelno |-> levelno,
     levelname |-> getLevelName(levelno),
     msg |-> msg,
     badArgs |-> badArgs,
     exc_info |-> exc_info,
     exc_text |-> None,
     stack_info |-> stack_info,
     notify_slack |-> notify_slack,
     message |-> None,
     asctime |-> None,
     levelprefix |-> None]

----------------------------------------------------------------------------
\* SlackLogHandler.__init__

\* CheckCredentials without the check of channel
CheckCredentials_NoChannel(is_webhook, webhook_url, slack_token, channel) ==
    IF is_webhook
    THEN IF ~TruthyStr(webhook_url)
         THEN "webhook_url is required when webhook delivery is enabled"
         ELSE "None"
    ELSE IF ~TruthyStr(slack_token)
         THEN "slack_token is required when not using webhook_url"
         ELSE "None"

\* The credential checks of __init__: the message of the ValueError raised,
\* or "None" when the selected transport's credentials are there.
CheckCredentials(is_webhook, webhook_url, slack_token, channel) ==
    IF is_webhook
    THEN IF ~TruthyStr(webhook_url)
         THEN "webhook_url is required when webhook delivery is enabled"
         ELSE "None"
    ELSE IF ~TruthyStr(slack_token)
         THEN "slack_token is required when not using webhook_url"
         ELSE IF ~TruthyStr(channel)
              THEN "channel is required when not using webhook_url"
              ELSE "None"

\* ResolveIconEmoji without the default
ResolveIconEmoji_NoDefault(icon_emoji, icon_url) == icon_emoji

\* self.icon_emoji = icon_emoji if (icon_emoji or icon_url) else DEFAULT_EMOJI
ResolveIconEmoji(icon_emoji, icon_url) ==
    IF TruthyStr(icon_emoji) \/ TruthyStr(icon_url)
    THEN icon_emoji
    ELSE Some(DEFAULT_EMOJI)

\* The client __init__ builds for the selected transport
MakeClient(is_webhook, webhook_url, slack_token) ==
    IF is_webhook
    THEN [cls |-> "WebhookClient", url |-> webhook_url[1]]
    ELSE [cls |-> "WebClient", token |-> slack_token[1]]

USERNAME == "Logging Alerts"

\* SlackLogHandler.__init__: the exception it raises ("None" when it returns)
\* and the handler it leaves (None when it raised).  The channel attribute is
\* assigned for the API client only.
SlackLogHandler_init(a) ==
    LET err == CheckCredentials(a.is_webhook, a.webhook_url, a.slack_token, a.channel)
    IN IF err # "None"
       THEN [raised |-> "ValueError", message |-> err, self |-> None]
       ELSE [raised |-> "None",
             message |-> "None",
             self |-> Some([formatter |-> CoreNoStacktraceCls,
                            stack_trace |-> a.stack_trace,
                            fail_silent |-> a.fail_silent,
                            username |-> USERNAME,
                            icon_url |-> a.icon_url,
                            icon_emoji |-> ResolveIconEmoji(a.icon_emoji, a.icon_url),
                            is_debug |-> a.is_debug,
                            is_webhook |-> a.is_webhook,
                            client |-> MakeClient(a.is_webhook, a.webhook_url, a.slack_token),
                            channel |-> IF a.is_webhook THEN None ELSE a.channel])]

----------------------------------------------------------------------------
\* SlackLogHandler.build_msg, build_trace and emit

\* ColorOf with COLORS[record.levelno]: a level without entry gives no color
ColorOf_NoDefault(levelno) ==
    IF levelno \in DOMAIN COLORS THEN COLORS[levelno] ELSE "KeyError"

\* COLORS.get(record.levelno, NOTSET_COLOR)
ColorOf(levelno) ==
    IF levelno \in DOMAIN COLORS THEN COLORS[levelno] ELSE NOTSET_COLOR

\* The code-fence delimiter of build_trace: three backquote characters.
FENCE == "<3 backquotes>"

\* The f-string of build_trace
Fenced(text) == <<FENCE>> \o text \o <<FENCE>>

\* build_trace testing record.exc_text, the cache, instead of record.exc_info
build_trace_OnExcText(rec, fallback) ==
    LET color == ColorOf(rec.levelno)
    IN IF TruthyText(rec.exc_text)
       THEN [fallback |-> fallback,
             color |-> color,
             text |-> Fenced(Join(NEWLINE, format_exception(rec.exc_info[1])))]
       ELSE [fallback |-> fallback, color |-> color]

\* SlackLogHandler.build_trace: the attachment dict
build_trace(rec, fallback) ==
    LET color == ColorOf(rec.levelno)
    IN IF TruthyExc(rec.exc_info)
       THEN [fallback |-> fallback,
             color |-> color,
             text |-> Fenced(Join(NEWLINE, format_exception(rec.exc_info[1])))]
       ELSE [fallback |-> fallback, color |-> color]

\* SlackLogHandler.build_msg: Handler.format with the formatter of the handler
build_msg(h, rec) == NoStacktraceFormatter_format(h.formatter, rec)

\* The call emit makes on its client
TransportCall(h, message, attachments) ==
    IF h.is_webhook
    THEN [api |-> "WebhookClient.send",
          text |-> message,
          attachments |-> attachments]
    ELSE [api |-> "WebClient.chat_postMessage",
          text |-> message,
          channel |-> h.channel,
          username |-> h.username,
          icon_url |-> h.icon_url,
          icon_emoji |-> h.icon_emoji,
          attachments |-> attachments]

\* The except clause of emit: the exception that leaves emit when thrown
\* left the try block.
ExceptClause(h, thrown) ==
    IF thrown = "SlackApiError"
    THEN IF h.fail_silent THEN "None" ELSE thrown
    ELSE thrown

\* Deliver without the is_debug test
Deliver_IgnoringDebug(h, message, attachments, how) ==
    [calls |-> <<TransportCall(h, message, attachments)>>,
     raised |-> ExceptClause(h, IF how = "returns" THEN "None" ELSE how)]

\* Deliver with one more attempt after a call that raised
Deliver_Retrying(h, message, attachments, how) ==
    IF h.is_debug
    THEN [calls |-> <<>>, raised |-> "None"]
    ELSE [calls |-> IF how = "returns"
                    THEN <<TransportCall(h, message, attachments)>>
                    ELSE <<TransportCall(h, message, attachments),
                           TransportCall(h, message, attachments)>>,
          raised |-> ExceptClause(h, IF how = "returns" THEN "None" ELSE how)]

\* The try statement of emit: the calls made on the client and the exception
\* that leaves emit.  how is what the client does with the call: it returns
\* ("returns") or raises the exception named.
Deliver(h, message, attachments, how) ==
    IF h.is_debug
    THEN [calls |-> <<>>, raised |-> "None"]
    ELSE [calls |-> <<TransportCall(h, message, attachments)>>,
          raised |-> ExceptClause(h, IF how = "returns" THEN "None" ELSE how)]

\* What the clients of the chat system do with a call, by the outcome of the
\* delivery.  WebClient.chat_postMessage raises SlackApiError for an answer of
\* the API that reports an error; WebhookClient.send returns the HTTP answer,
\* whatever its status; both let a failure below HTTP (URLError) through.
DeliveryKinds == {"AuthError", "RateLimited", "NetworkError", "InvalidPayload", "Unknown"}

ClientBehaviour(is_webhook, kind) ==
    CASE kind = "ok" -> {"returns"}
      [] kind = "NetworkError" -> {"URLError"}
      [] kind = "Unknown" -> IF is_webhook THEN {"returns", "URLError"}
                                           ELSE {"SlackApiError", "URLError"}
      [] OTHER -> IF is_webhook THEN {"returns"} ELSE {"SlackApiError"}

NoOutcome == [kind |-> "none", how |-> "none"]

\* SlackLogHandler.emit on record rec, when the delivery ends as outcome:
\* the record as emit leaves it and the report of the call.
emit(h, rec, outcome) ==
    LET fm == build_msg(h, rec)
    IN IF fm.raised # "None"
       THEN [before |-> rec,
             after |-> fm.rec,
             text |-> None,
             attachments |-> None,
             calls |-> <<>>,
             outcome |-> NoOutcome,
             raised |-> fm.raised]
       ELSE LET message == fm.ret[1]
                attachments == IF h.stack_trace
                               THEN Some(<<build_trace(fm.rec, message)>>)
                               ELSE None
                d == Deliver(h, message, attachments, outcome.how)
            IN [before |-> rec,
                after |-> fm.rec,
                text |-> Some(message),
                attachments |-> attachments,
                calls |-> d.calls,
                outcome |-> IF d.calls = <<>> THEN NoOutcome ELSE outcome,
                raised |-> d.raised]

----------------------------------------------------------------------------
\* The inputs.

WebhookUrls == {None, Some(""), Some("https://hooks.slack.com/services/T/B/X")}
SlackTokens == {None, Some("xoxb-token")}
Channels == {None, Some("#alerts")}
IconUrls == {None, Some("https://example.com/icon.png")}
IconEmojis == {None, Some(":fire:")}

\* The keyword arguments of SlackLogHandler(...)
CtorArgs ==
    [slack_token : SlackTokens,
     channel : Channels,
     webhook_url : WebhookUrls,
     is_webhook : BOOLEAN,
     is_debug : BOOLEAN,
     stack_trace : BOOLEAN,
     icon_url : IconUrls,
     icon_emoji : IconEmojis,
     fail_silent : BOOLEAN]

\* The logging calls of test.py: logger.info("Test INFO"),
\* logger.error("Test ERROR") and, in the except block, logger.exception(e);
\* and three variants of them: arguments that do not fit the template, and
\* stack_info=True without and with an exception.
TestCalls ==
    {LogRecord(INFO, "Test INFO", FALSE, None, None, None),
     LogRecord(ERROR, "Test ERROR", FALSE, None, None, None),
     LogRecord(ERROR, "Test exception", FALSE, Some(TestException), None, None),
     LogRecord(INFO, "Test INFO %d", TRUE, None, None, None),
     LogRecord(ERROR, "Test ERROR", FALSE, None, Some(STACK_INFO), None),
     LogRecord(ERROR, "Test exception", FALSE, Some(TestException), Some(STACK_INFO), None)}

\* The levels of the host framework, and 25 and 60: two levels an application
\* added with addLevelName, which no entry of COLORS names
LevelNumbers == {NOTSET, DEBUG, INFO, WARNING, ERROR, FATAL, CRITICAL, 25, 60}

\* The values a caller gives the notify_slack attribute through extra=;
\* None is the attribute being absent.
NotifyFlags == {None, Some("True"), Some("False"), Some("None")}

\* Records of every level, with and without exception information, as the
\* host framework hands them to a filter or to build_trace.
AnyRecords ==
    {LogRecord(l, "Test message", FALSE, ei, None, nf) :
        l \in LevelNumbers,
        ei \in {None, Some(NoException), Some(TestException)},
        nf \in NotifyFlags}

Fallbacks == {<<"Test message">>, <<>>}

\* The emit calls of a counted run
MaxEmits == 3

\* The constructions of a counted run: one transport, with its credentials
CountedArgs ==
    {a \in CtorArgs :
        /\ a.icon_url = None /\ a.icon_emoji = None
        /\ IF a.is_webhook
           THEN TruthyStr(a.webhook_url) /\ a.slack_token = None /\ a.channel = None
           ELSE a.webhook_url = None /\ TruthyStr(a.slack_token) /\ TruthyStr(a.channel)}

----------------------------------------------------------------------------
\* The state machine.
\*   handler   the SlackLogHandler, None until a construction has succeeded
\*   ctor      the arguments and the outcome of the last construction
\*   record    the log record the host framework is dispatching
\*   emitted   the report of the last emit on that record
\*   filtered  the result of the last SlackLogFilter.filter on that record
\*   traced    the argument and result of the last build_trace on that record
\*   emits     in a counted run (SpecTally), the emit calls made so far
\*   sends     in a counted run, the calls made on the client so far

Init ==
    /\ handler = None
    /\ ctor = None
    /\ record = None
    /\ emitted = None
    /\ filtered = None
    /\ traced = None
    /\ emits = 0
    /\ sends = 0

\* handler = SlackLogHandler(**a), the one construction of a run
Construct(a) ==
    /\ handler = None
    /\ ctor = None
    /\ LET res == SlackLogHandler_init(a)
       IN /\ handler' = res.self
          /\ ctor' = Some([args |-> a, raised |-> res.raised, message |-> res.message])
    /\ UNCHANGED <<record, emitted, filtered, traced, emits, sends>>

\* handler.setFormatter(formatter), as test.py does
SetFormatter(cls) ==
    /\ handler # None
    /\ handler[1].formatter # cls
    /\ handler' = Some([handler[1] EXCEPT !.formatter = cls])
    /\ UNCHANGED <<ctor, record, emitted, filtered, traced, emits, sends>>

\* A logging call: the host framework creates the record it will dispatch
Log(rec) ==
    /\ record' = Some(rec)
    /\ emitted' = None
    /\ filtered' = None
    /\ traced' = None
    /\ UNCHANGED <<handler, ctor, emits, sends>>

\* The console handler of test.py formats the record with DefaultFormatter
ConsoleFormat ==
    /\ record # None
    /\ record' = Some(DefaultFormatter_format(DefaultFormatterCls, record[1]).rec)
    /\ UNCHANGED <<handler, ctor, emitted, filtered, traced, emits, sends>>

\* handler.emit(record), the delivery ending as kind
EmitStep(kind) ==
    /\ handler # None
    /\ record # None
    /\ \E how \in ClientBehaviour(handler[1].is_webhook, kind) :
          LET rep == emit(handler[1], record[1], [kind |-> kind, how |-> how])
          IN /\ emitted' = Some(rep)
             /\ record' = Some(rep.after)
    /\ UNCHANGED <<handler, ctor, filtered, traced>>

Emit(kind) ==
    /\ EmitStep(kind)
    /\ UNCHANGED <<emits, sends>>

\* handler.emit(record) in a counted run of at most MaxEmits emit calls
EmitCounted(kind) ==
    /\ emits < MaxEmits
    /\ EmitStep(kind)
    /\ emits' = emits + 1
    /\ sends' = sends + Len(emitted'[1].calls)

\* SlackLogFilter().filter(record)
Filter ==
    /\ record # None
    /\ filtered' = Some([rec |-> record[1], result |-> filter(record[1])])
    /\ UNCHANGED <<handler, ctor, record, emitted, traced, emits, sends>>

\* build_trace(record, fallback)
BuildTrace(fallback) ==
    /\ record # None
    /\ traced' = Some([fallback |-> fallback, rec |-> record[1],
                       trace |-> build_trace(record[1], fallback)])
    /\ UNCHANGED <<handler, ctor, record, emitted, filtered, emits, sends>>

Next ==
    \/ \E a \in CtorArgs : Construct(a)
    \/ \E cls \in HandlerFormatters : SetFormatter(cls)
    \/ \E rec \in TestCalls : Log(rec)
    \/ ConsoleFormat
    \/ \E kind \in {"ok"} \cup DeliveryKinds : Emit(kind)

Spec == Init /\ [][Next]_vars

\* The filter and the trace builder on records of every level.
InitRecord ==
    /\ handler = None
    /\ ctor = None
    /\ record \in {Some(r) : r \in AnyRecords}
    /\ emitted = None
    /\ filtered = None
    /\ traced = None
    /\ emits = 0
    /\ sends = 0

NextRecord ==
    \/ Filter
    \/ \E fallback \in Fallbacks : BuildTrace(fallback)

SpecRecord == InitRecord /\ [][NextRecord]_vars

\* Counted runs: every emit call and every call on the client is counted.
NextTally ==
    \/ \E a \in CountedArgs : Construct(a)
    \/ \E cls \in HandlerFormatters : SetFormatter(cls)
    \/ \E rec \in TestCalls : Log(rec)
    \/ ConsoleFormat
    \/ \E kind \in {"ok"} \cup DeliveryKinds : EmitCounted(kind)

SpecTally == Init /\ [][NextTally]_vars

----------------------------------------------------------------------------
\* The properties.

\* A value was supplied: it is neither None nor the empty string
Supplied(o) == o # None /\ o[1] # ""

\* The built string holds a chunk of exception-trace text
HasTrace(text) == \E i \in DOMAIN text : text[i] \in TraceChunks

\* C1: whenever the delivery of an emit ended in an error of one of the five
\* kinds, the error left emit (was raised to the caller) if and only if
\* fail_silent is false.
C1_FailurePolicy ==
    (handler # None /\ emitted # None /\ emitted[1].outcome.kind \in DeliveryKinds)
        => ((emitted[1].raised # "None") <=> ~handler[1].fail_silent)

\* C2: a handler constructed with is_debug true makes no call on its client:
\* none in the last emit and none in the whole run, whatever the records were.
C2_DebugSendsNothing ==
    (handler # None /\ handler[1].is_debug)
        => /\ sends = 0
           /\ emitted # None => emitted[1].calls = <<>>

\* C2 witness: a debug handler has emitted twice, last a record with exception
\* information for which it built the attachment.
C2_DebugEmitted ==
    /\ handler # None /\ handler[1].is_debug
    /\ emits >= 2
    /\ emitted # None
    /\ emitted[1].before.exc_info # None
    /\ emitted[1].attachments # None

\* C3: a construction whose selected transport lacks a credential (webhook:
\* webhook_url; API: slack_token or channel) raises ValueError, leaves no
\* handler and so no emit ever happens; a construction with the credentials
\* of the selected transport succeeds with exactly that one client.
C3_Construction ==
    ctor # None =>
        LET a == ctor[1].args
            complete == IF a.is_webhook
                        THEN Supplied(a.webhook_url)
                        ELSE Supplied(a.slack_token) /\ Supplied(a.channel)
        IN /\ ~complete => /\ ctor[1].raised = "ValueError"
                           /\ handler = None
                           /\ emitted = None
           /\ complete => /\ ctor[1].raised = "None"
                          /\ handler # None
                          /\ handler[1].is_webhook = a.is_webhook
                          /\ handler[1].client.cls =
                                IF a.is_webhook THEN "WebhookClient" ELSE "WebClient"
                          /\ (handler[1].channel # None) <=> ~a.is_webhook

\* C3 witness: the API transport was selected with a token and without a
\* channel, the construction raised, and a record was logged afterwards.
C3_ApiWithoutChannel ==
    /\ ctor # None
    /\ ~ctor[1].args.is_webhook
    /\ Supplied(ctor[1].args.slack_token)
    /\ ctor[1].args.channel = None
    /\ ctor[1].raised = "ValueError"
    /\ record # None

\* C4: the message emit renders, and the text of every call it makes, holds no
\* exception-trace text.
C4_NoTraceInMessage ==
    emitted # None =>
        /\ emitted[1].text # None => ~HasTrace(emitted[1].text[1])
        /\ \A i \in DOMAIN emitted[1].calls : ~HasTrace(emitted[1].calls[i].text)

\* C4 witness: the record carried exception information and a filled exc_text
\* cache when the handler formatted it and sent the message.
C4_CachedTraceEmitted ==
    /\ emitted # None
    /\ emitted[1].before.exc_info # None
    /\ emitted[1].before.exc_text # None
    /\ HasTrace(emitted[1].before.exc_text[1])
    /\ emitted[1].text # None
    /\ emitted[1].calls # <<>>

\* The fenced, newline-joined formatted exception, written out
ExpectedBody(ei) ==
    IF ei = NoException
    THEN <<FENCE, "NoneType: None", "\n", FENCE>>
    ELSE <<FENCE,
           "Traceback (most recent call last):", "\n", "\n",
           "  File test.py, line 38, in <module>", "\n", "\n",
           "Exception: Test exception", "\n",
           FENCE>>

\* C5: the attachment build_trace returns has the key text if and only if
\* the record carries exception information; the text is then the fenced,
\* newline-joined formatted exception; fallback (the argument) and color are
\* set in both cases.
C5_TraceBody ==
    traced # None =>
        LET t == traced[1].trace
            r == traced[1].rec
        IN /\ ("text" \in DOMAIN t) <=> (r.exc_info # None)
           /\ "text" \in DOMAIN t => t.text = ExpectedBody(r.exc_info[1])
           /\ {"fallback", "color"} \subseteq DOMAIN t
           /\ t.fallback = traced[1].fallback
           /\ t.color \in {COLORS[l] : l \in DOMAIN COLORS}

\* C5 witness: build_trace ran on a record with a real exception.
C5_TracedException ==
    /\ traced # None
    /\ traced[1].rec.exc_info = Some(TestException)
    /\ "text" \in DOMAIN traced[1].trace

\* The color of each level, written out
ExpectedColor(levelno) ==
    CASE levelno = 0 -> "#808080"
      [] levelno = 10 -> "#00FFFF"
      [] levelno = 20 -> "#00C400"
      [] levelno = 30 -> "#FFE240"
      [] levelno = 40 -> "#FF0000"
      [] levelno = 50 -> "#700000"
      [] OTHER -> "#808080"

\* C6: the color of the attachment is the fixed color of the level of the
\* record (CRITICAL and FATAL share one), and the color of NOTSET for a level
\* without entry.
C6_ColorOfLevel ==
    traced # None => traced[1].trace.color = ExpectedColor(traced[1].rec.levelno)

\* C6 witness: build_trace ran on a record of a level COLORS has no entry for.
C6_TracedCustomLevel ==
    /\ traced # None
    /\ traced[1].rec.levelno \notin DOMAIN COLORS
    /\ traced[1].trace.color = NOTSET_COLOR

\* C7: filter returns True if and only if the record has the attribute
\* notify_slack and it is True, and it leaves the record as it was.
C7_FilterIffFlag ==
    filtered # None =>
        /\ (filtered[1].result = "True") <=> (filtered[1].rec.notify_slack = Some("True"))
        /\ TruthyValue(filtered[1].result) <=> (filtered[1].rec.notify_slack = Some("True"))
        /\ record = Some(filtered[1].rec)

\* C7 witness: the filter rejected a record without the attribute.
C7_AbsentFlagRejected ==
    /\ filtered # None
    /\ filtered[1].rec.notify_slack = None
    /\ filtered[1].result = "False"

\* C8 as stated: after the handler formatted the record, every field of the
\* record equals its value before.
C8_RecordUnchanged ==
    emitted # None => emitted[1].after = emitted[1].before

\* The attributes the renderer computes and stores on the record
DerivedAttributes == {"message", "asctime", "levelprefix"}

\* C8 amended: after the handler formatted the record, whether format
\* returned or raised, exc_text and every other field but the attributes the
\* renderer stores (message, asctime, levelprefix) equal their values before.
C8_HostFieldsRestored ==
    emitted # None =>
        \A f \in (DOMAIN emitted[1].before) \ DerivedAttributes :
            emitted[1].after[f] = emitted[1].before[f]

\* C8 witness: the handler formatted a record whose exc_text cache the console
\* handler had filled, rendered its message, and the cache is as it was.
C8_FormattedCachedRecord ==
    /\ emitted # None
    /\ emitted[1].before.exc_text # None
    /\ HasTrace(emitted[1].before.exc_text[1])
    /\ emitted[1].text # None
    /\ emitted[1].after.exc_text = emitted[1].before.exc_text

\* C9 as stated: the handler holds exactly one of icon_url and icon_emoji, the
\* default emoji when neither was supplied, and an API call carries the same.
C9_ExactlyOneIcon ==
    handler # None =>
        /\ (handler[1].icon_url # None) # (handler[1].icon_emoji # None)
        /\ (ctor[1].args.icon_url = None /\ ctor[1].args.icon_emoji = None)
              => handler[1].icon_emoji = Some(":heavy_exclamation_mark:")

\* C9 amended: icon_emoji is the default emoji exactly when neither option was
\* supplied; when one was supplied only that one is set; when both were
\* supplied both are set; and an API call carries icon_url and icon_emoji as
\* the handler holds them.
C9_IconsAsSupplied ==
    handler # None =>
        LET a == ctor[1].args
            h == handler[1]
        IN /\ (a.icon_url = None /\ a.icon_emoji = None)
                 => (h.icon_url = None /\ h.icon_emoji = Some(":heavy_exclamation_mark:"))
           /\ (a.icon_url # None /\ a.icon_emoji = None)
                 => (h.icon_url = a.icon_url /\ h.icon_emoji = None)
           /\ (a.icon_url = None /\ a.icon_emoji # None)
                 => (h.icon_url = None /\ h.icon_emoji = a.icon_emoji)
           /\ (a.icon_url # None /\ a.icon_emoji # None)
                 => (h.icon_url = a.icon_url /\ h.icon_emoji = a.icon_emoji)
           /\ (emitted # None /\ ~h.is_webhook) =>
                 \A i \in DOMAIN emitted[1].calls :
                     /\ emitted[1].calls[i].icon_url = h.icon_url
                     /\ emitted[1].calls[i].icon_emoji = h.icon_emoji

\* C9 witness: both options were supplied and an API call carried both.
C9_BothIconsSent ==
    /\ handler # None
    /\ ~handler[1].is_webhook
    /\ ctor[1].args.icon_url # None
    /\ ctor[1].args.icon_emoji # None
    /\ emitted # None
    /\ emitted[1].calls # <<>>
    /\ emitted[1].calls[1].icon_url # None
    /\ emitted[1].calls[1].icon_emoji # None

\* C10: an emit makes at most one call on the client, with the message of the
\* record it was given, so that a run never holds more calls than emits.
C10_SingleAttempt ==
    /\ sends <= emits
    /\ emitted # None =>
          /\ Len(emitted[1].calls) <= 1
          /\ \A i \in DOMAIN emitted[1].calls :
                /\ emitted[1].calls[i].text = emitted[1].text[1]
                /\ \E j \in DOMAIN emitted[1].calls[i].text :
                      emitted[1].calls[i].text[j] = emitted[1].before.msg

\* C10 witness: every emit of the run so far made its call, there were at
\* least two, and the last one ended in an error that left emit.
C10_FailedAfterEarlierEmit ==
    /\ emits >= 2
    /\ sends = emits
    /\ emitted # None
    /\ emitted[1].outcome.kind \in DeliveryKinds
    /\ emitted[1].raised # "None"

====
